---- MODULE Spec2Model ----
(***************************************************************************)
(* reduce_science_frame (src/src/science.py): bias subtraction, exposure-  *)
(* scaled dark subtraction, flat division, cosmic-ray masking and the      *)
(* two-plane FITS output, as a sequential state machine over a file        *)
(* system.                                                                 *)
(*                                                                         *)
(* Pixel values are exact extended rationals <<n, d>>: d > 0 is the finite *)
(* value n/d in lowest terms, <<1, 0>> is +inf, <<-1, 0>> is -inf and      *)
(* <<0, 0>> is NaN.  Single-precision rounding and the sign of zero are    *)
(* not modelled.                                                           *)
(***************************************************************************)
EXTENDS Integers, Sequences, FiniteSets, TLC

\* Calls of reduce_science_frame made in one behaviour.
MaxCalls == 2
\* The science frame's EXPTIME ranges over 0 .. MaxExpTime.
MaxExpTime == 2

-----------------------------------------------------------------------------
(* float32 arithmetic of numpy, on extended rationals *)

NaN == <<0, 0>>

Abs(n) == IF n < 0 THEN -n ELSE n

Sgn(n) == IF n > 0 THEN 1 ELSE IF n < 0 THEN -1 ELSE 0

RECURSIVE GCD(_, _)
GCD(a, b) == IF b = 0 THEN a ELSE GCD(b, a % b)

\* n/d with d # 0, in lowest terms with a positive denominator
Rat(n, d) ==
    LET g == GCD(Abs(n), Abs(d))
    IN  <<(Sgn(d) * n) \div g, Abs(d) \div g>>

IsNaN(a) == a = NaN
IsInf(a) == a[2] = 0 /\ a[1] # 0
IsZero(a) == a[2] # 0 /\ a[1] = 0

Neg(a) == <<-a[1], a[2]>>

Add(a, b) ==
    IF IsNaN(a) \/ IsNaN(b) THEN NaN
    ELSE IF IsInf(a) THEN (IF IsInf(b) /\ b # a THEN NaN ELSE a)
    ELSE IF IsInf(b) THEN b
    ELSE Rat(a[1] * b[2] + b[1] * a[2], a[2] * b[2])

\* a - b
Sub(a, b) == Add(a, Neg(b))

\* a * b
Mul(a, b) ==
    IF IsNaN(a) \/ IsNaN(b) THEN NaN
    ELSE IF IsInf(a) \/ IsInf(b)
         THEN (IF IsZero(a) \/ IsZero(b) THEN NaN ELSE <<Sgn(a[1]) * Sgn(b[1]), 0>>)
    ELSE Rat(a[1] * b[1], a[2] * b[2])

\* a / b; a finite value over zero is an infinity, zero over zero is NaN,
\* and nothing is raised
Div(a, b) ==
    IF IsNaN(a) \/ IsNaN(b) THEN NaN
    ELSE IF IsInf(a)
         THEN (IF IsInf(b) THEN NaN ELSE <<IF b[1] < 0 THEN -a[1] ELSE a[1], 0>>)
    ELSE IF IsInf(b) THEN <<0, 1>>
    ELSE IF IsZero(b) THEN <<Sgn(a[1]), 0>>
    ELSE Rat(a[1] * b[2], a[2] * b[1])

-----------------------------------------------------------------------------
(* arrays *)

\* the index set of a 2D array of shape <<rows, cols>>
Idx(shape) == (1 .. shape[1]) \X (1 .. shape[2])

\* the array whose rows are the sequences of m
Grid(m) == [ij \in (1 .. Len(m)) \X (1 .. Len(m[1])) |-> m[ij[1]][ij[2]]]

ShapeOf(m) == <<Len(m), Len(m[1])>>

None == [kind |-> "None"]

\* numpy: can an operand of shape s be broadcast into an in-place operation
\* on an array of shape target (the result must keep the target's shape)
Broadcastable(s, target) ==
    \A k \in 1 .. 2 : s[k] = target[k] \/ s[k] = 1

\* the element of operand b that meets element ij of the target
BroadcastAt(b, ij) ==
    b.pix[<<IF b.shape[1] = 1 THEN 1 ELSE ij[1],
            IF b.shape[2] = 1 THEN 1 ELSE ij[2]>>]

\* mutant of ISub: the operands the wrong way round, a = b - a
ISubReversed(a, b) == [a EXCEPT !.pix = [ij \in Idx(a.shape) |-> Sub(BroadcastAt(b, ij), a.pix[ij])]]

\* a -= b
ISub(a, b) == [a EXCEPT !.pix = [ij \in Idx(a.shape) |-> Sub(a.pix[ij], BroadcastAt(b, ij))]]

\* a /= b
IDiv(a, b) == [a EXCEPT !.pix = [ij \in Idx(a.shape) |-> Div(a.pix[ij], BroadcastAt(b, ij))]]

\* a *= t for a scalar t
IMulScalar(a, t) == [a EXCEPT !.pix = [ij \in Idx(a.shape) |-> Mul(a.pix[ij], <<t, 1>>)]]

-----------------------------------------------------------------------------
(* astropy.io.fits: headers *)

Num(n) == [num |-> n]
Str(s) == [str |-> s]

Card(k, v, c) == [key |-> k, value |-> v, comment |-> c]

HasKey(h, k) == \E i \in 1 .. Len(h) : h[i].key = k

FirstIndex(h, k) == CHOOSE i \in 1 .. Len(h) : h[i].key = k /\ \A j \in 1 .. (i - 1) : h[j].key # k

LastIndex(h, k) == CHOOSE i \in 1 .. Len(h) : h[i].key = k /\ \A j \in (i + 1) .. Len(h) : h[j].key # k

\* header[k]; the caller has checked HasKey (a KeyError otherwise)
HeaderGet(h, k) == h[FirstIndex(h, k)].value

Commentary(k) == k \in {"COMMENT", "HISTORY"}

InsertAt(h, i, card) == SubSeq(h, 1, i - 1) \o <<card>> \o SubSeq(h, i, Len(h))

\* where Header.append puts a new keyword: after the last card that is not
\* a commentary card
AfterLastKeyword(h) ==
    LET keyed == {i \in 1 .. Len(h) : ~Commentary(h[i].key)}
    IN  IF keyed = {} THEN 1 ELSE 1 + (CHOOSE i \in keyed : \A j \in keyed : j <= i)

\* header[k] = (v, c): a keyword already present is updated in place, a
\* commentary keyword always adds a card (after the last of its kind), and a
\* new keyword is added after the last keyword card
HeaderSet(h, k, v, c) ==
    IF ~Commentary(k) /\ HasKey(h, k)
    THEN [h EXCEPT ![FirstIndex(h, k)] = Card(k, v, c)]
    ELSE IF Commentary(k)
         THEN (IF HasKey(h, k) THEN InsertAt(h, LastIndex(h, k) + 1, Card(k, v, c))
                               ELSE Append(h, Card(k, v, c)))
    ELSE InsertAt(h, AfterLastKeyword(h), Card(k, v, c))

\* the BITPIX of an array's element type
BitpixOf(dtype) ==
    CASE dtype = "uint8" -> 8
      [] dtype = "int16" -> 16
      [] dtype = "float32" -> -32

BitpixCard(dtype) == Card("BITPIX", Num(BitpixOf(dtype)), "array data type")

-----------------------------------------------------------------------------
(* numpy element types.  Integer elements are 1-tuples <<n>>, booleans are  *)
(* TRUE/FALSE, float32 elements are the extended rationals above.          *)

\* ndarray.astype('f4'): a new float32 array
astype_f4(a) ==
    [dtype |-> "float32", shape |-> a.shape,
     pix |-> [ij \in Idx(a.shape) |-> IF a.dtype = "float32" THEN a.pix[ij]
                                       ELSE <<a.pix[ij][1], 1>>]]

\* mutant of astype_uint8: flagged pixels saturated to 255
astype_uint8_saturated(m) ==
    [dtype |-> "uint8", shape |-> m.shape,
     pix |-> [ij \in Idx(m.shape) |-> IF m.pix[ij] THEN <<255>> ELSE <<0>>]]

\* ndarray.astype('uint8') of a boolean mask: a new array of 0 and 1
astype_uint8(m) ==
    [dtype |-> "uint8", shape |-> m.shape,
     pix |-> [ij \in Idx(m.shape) |-> IF m.pix[ij] THEN <<1>> ELSE <<0>>]]

IntArray(dtype, m) ==
    [dtype |-> dtype, shape |-> ShapeOf(m), pix |-> [ij \in DOMAIN Grid(m) |-> <<Grid(m)[ij]>>]]

FloatArray(m) ==
    [dtype |-> "float32", shape |-> ShapeOf(m), pix |-> [ij \in DOMAIN Grid(m) |-> <<Grid(m)[ij], 1>>]]

-----------------------------------------------------------------------------
(* astropy.io.fits: files *)

Absent == [kind |-> "absent"]
\* not a FITS container: unreadable, truncated or partly written
Corrupt == [kind |-> "corrupt"]
FitsFile(hdus) == [kind |-> "fits", hdus |-> hdus]

HDU(name, header, data) == [name |-> name, header |-> header, data |-> data]

\* fits.PrimaryHDU(data=d, header=h): the header's cards are carried over and
\* the structural keywords are rewritten to describe d
PrimaryHDU(d, h) ==
    HDU("PRIMARY",
        <<BitpixCard(d.dtype)>> \o SelectSeq(h, LAMBDA c : c.key # "BITPIX"),
        d)

\* fits.ImageHDU(data=d, name=n)
ImageHDU(d, n) ==
    HDU(n, <<BitpixCard(d.dtype), Card("EXTNAME", Str(n), "extension name")>>, d)

\* what opening file f for reading raises, "" if nothing
OpenError(f) ==
    CASE f.kind = "absent" -> "FileNotFoundError"
      [] f.kind = "corrupt" -> "OSError"
      [] OTHER -> ""

\* fits.getdata(filename): the primary plane's array
getdata(f) == f.hdus[1].data

\* fits.getheader(filename): the primary plane's header
getheader(f) == f.hdus[1].header

-----------------------------------------------------------------------------
(* the file system the reductions start from *)

Paths ==
    {"sci.fits", "noexp.fits", "bias.fits", "dark.fits", "flat.fits",
     "row.fits", "col.fits", "one.fits", "wide.fits",
     "missing.fits", "junk.fits", "reduced_science.fits"}

Plain(a) == FitsFile(<<HDU("PRIMARY", <<BitpixCard(a.dtype)>>, a)>>)

\* a raw science exposure of t seconds, masters made from it and frames of
\* other shapes, an unreadable file and two paths that hold nothing
InitialFiles(t) ==
    LET raw == IntArray("int16", <<<<20, 14>>, <<9, 6>>>>)
        b   == FloatArray(<<<<2, 2>>, <<1, 2>>>>)
        d   == FloatArray(<<<<1, 2>>, <<3, 2>>>>)
        f   == FloatArray(<<<<1, 2>>, <<4, 0>>>>)
    IN  [p \in Paths |->
          CASE p = "sci.fits" ->
                 FitsFile(<<HDU("PRIMARY",
                                <<BitpixCard("int16"),
                                  Card("EXPTIME", Num(t), "exposure time"),
                                  Card("OBJECT", Str("M31"), "target")>>, raw)>>)
            [] p = "noexp.fits" ->
                 FitsFile(<<HDU("PRIMARY",
                                <<BitpixCard("int16"),
                                  Card("OBJECT", Str("M31"), "target")>>, raw)>>)
            [] p = "bias.fits" ->
                 FitsFile(<<HDU("PRIMARY",
                                <<BitpixCard("float32"),
                                  Card("EXPTIME", Num(0), "exposure time"),
                                  Card("IMAGETYP", Str("bias"), "frame type")>>, b)>>)
            [] p = "dark.fits" ->
                 FitsFile(<<HDU("PRIMARY",
                                <<BitpixCard("float32"),
                                  Card("EXPTIME", Num(30), "exposure time"),
                                  Card("IMAGETYP", Str("dark"), "frame type")>>, d)>>)
            [] p = "flat.fits" ->
                 FitsFile(<<HDU("PRIMARY",
                                <<BitpixCard("float32"),
                                  Card("EXPTIME", Num(5), "exposure time"),
                                  Card("IMAGETYP", Str("flat"), "frame type")>>, f)>>)
            [] p = "row.fits" -> Plain(FloatArray(<<<<1, 2>>>>))
            [] p = "col.fits" -> Plain(FloatArray(<<<<2>>, <<1>>>>))
            [] p = "one.fits" -> Plain(FloatArray(<<<<1>>>>))
            [] p = "wide.fits" -> Plain(FloatArray(<<<<1, 1, 1>>, <<1, 1, 1>>>>))
            [] p = "junk.fits" -> Corrupt
            [] OTHER -> Absent]

\* the arguments of a call in the order of the signature, the output path
\* at its default
Nominal ==
    [science |-> "sci.fits", bias |-> "bias.fits", flat |-> "flat.fits",
     dark |-> "dark.fits", out |-> "reduced_science.fits"]

Roles == {"science", "bias", "flat", "dark", "out"}

\* the paths tried in place of each nominal argument
Alternatives(r) ==
    CASE r = "science" -> {"noexp.fits", "one.fits", "missing.fits", "junk.fits",
                           "reduced_science.fits"}
      [] r = "bias" -> {"row.fits", "one.fits", "wide.fits", "missing.fits"}
      [] r = "flat" -> {"col.fits", "one.fits", "wide.fits", "junk.fits"}
      [] r = "dark" -> {"row.fits", "col.fits", "wide.fits", "missing.fits"}
      [] r = "out" -> {"sci.fits", "bias.fits", "dark.fits"}

\* the argument lists tried: the nominal one, and the nominal one with one
\* argument replaced
ArgChoices ==
    {Nominal} \cup UNION {{[Nominal EXCEPT ![r] = p] : p \in Alternatives(r)} : r \in Roles}

-----------------------------------------------------------------------------
(* astroscrappy.detect_cosmics: an external detector *)

\* the outcomes of detect_cosmics(img): an error, or a boolean mask of the
\* image's shape and a float32 copy of the image with the flagged pixels
\* replaced.  The detector flags nothing or the first pixel, and replaces a
\* flagged pixel by 0.
detect_cosmics(img) ==
    {[ok |-> FALSE]} \cup
    {[ok |-> TRUE,
      mask |-> [dtype |-> "bool", shape |-> img.shape,
                pix |-> [ij \in Idx(img.shape) |-> ij \in hits]],
      clean |-> [img EXCEPT !.pix = [ij \in Idx(img.shape) |->
                                       IF ij \in hits THEN <<0, 1>> ELSE img.pix[ij]]]]
       : hits \in {{}, {<<1, 1>>}}}

-----------------------------------------------------------------------------
(* reduce_science_frame *)

VARIABLES
    files,            \* path -> file: the file system
    calls,            \* calls made so far
    pc,               \* the statement about to run; "idle", "done", "raised"
    args,             \* the arguments of the call
    bias, flat, dark, sci, sciHeader,          \* locals, lines 42-46
    mask, reduced_science,                     \* locals, line 57
    sci_hdu, mask_hdu, hdul,                   \* locals, lines 59-65
    result,           \* the value returned to the caller
    err,              \* the exception that left the call, "" if none
    files0,           \* history: the file system when the call began
    crInput,          \* history: the images handed to detect_cosmics
    trace             \* history: the statements the call has run

locals == <<bias, flat, dark, sci, sciHeader, mask, reduced_science, sci_hdu, mask_hdu, hdul>>
vars == <<files, calls, pc, args, locals, result, err, files0, crInput, trace>>

Init ==
    /\ \E t \in 0 .. MaxExpTime : files = InitialFiles(t)
    /\ files0 = files
    /\ calls = 0
    /\ pc = "idle"
    /\ args = Nominal
    /\ bias = None /\ flat = None /\ dark = None /\ sci = None /\ sciHeader = None
    /\ mask = None /\ reduced_science = None
    /\ sci_hdu = None /\ mask_hdu = None /\ hdul = None
    /\ result = None
    /\ err = ""
    /\ crInput = <<>>
    /\ trace = <<>>

\* the caller invokes reduce_science_frame(a.science, a.bias, a.flat, a.dark, a.out)
Call ==
    /\ pc \in {"idle", "done", "raised"}
    /\ calls < MaxCalls
    /\ \E a \in ArgChoices : args' = a
    /\ calls' = calls + 1
    /\ files0' = files
    /\ pc' = "load_bias"
    /\ bias' = None /\ flat' = None /\ dark' = None /\ sci' = None /\ sciHeader' = None
    /\ mask' = None /\ reduced_science' = None
    /\ sci_hdu' = None /\ mask_hdu' = None /\ hdul' = None
    /\ result' = None
    /\ err' = ""
    /\ crInput' = <<>>
    /\ trace' = <<>>
    /\ UNCHANGED files

\* statement s runs
At(s) == pc = s /\ trace' = Append(trace, s)

\* the exception e leaves the call
Raise(e) == pc' = "raised" /\ err' = e

\* fits.getdata(path).astype('f4'): what it raises ("" if nothing) and the
\* array it yields
Load(path) ==
    LET f == files[path]
    IN  [error |-> OpenError(f),
         data |-> IF OpenError(f) = "" THEN astype_f4(getdata(f)) ELSE None]

\* line 42: bias = fits.getdata(median_bias_filename).astype('f4')
LoadBias ==
    /\ At("load_bias")
    /\ IF Load(args.bias).error # ""
       THEN Raise(Load(args.bias).error) /\ UNCHANGED bias
       ELSE bias' = Load(args.bias).data /\ pc' = "load_flat" /\ UNCHANGED err
    /\ UNCHANGED <<files, calls, args, flat, dark, sci, sciHeader, mask, reduced_science,
                   sci_hdu, mask_hdu, hdul, result, files0, crInput>>

\* line 43: flat = fits.getdata(median_flat_filename).astype('f4')
LoadFlat ==
    /\ At("load_flat")
    /\ IF Load(args.flat).error # ""
       THEN Raise(Load(args.flat).error) /\ UNCHANGED flat
       ELSE flat' = Load(args.flat).data /\ pc' = "load_dark" /\ UNCHANGED err
    /\ UNCHANGED <<files, calls, args, bias, dark, sci, sciHeader, mask, reduced_science,
                   sci_hdu, mask_hdu, hdul, result, files0, crInput>>

\* line 44: dark = fits.getdata(median_dark_filename).astype('f4')
LoadDark ==
    /\ At("load_dark")
    /\ IF Load(args.dark).error # ""
       THEN Raise(Load(args.dark).error) /\ UNCHANGED dark
       ELSE dark' = Load(args.dark).data /\ pc' = "load_sci" /\ UNCHANGED err
    /\ UNCHANGED <<files, calls, args, bias, flat, sci, sciHeader, mask, reduced_science,
                   sci_hdu, mask_hdu, hdul, result, files0, crInput>>

\* line 45: sci = fits.getdata(science_filename).astype('f4')
LoadSci ==
    /\ At("load_sci")
    /\ IF Load(args.science).error # ""
       THEN Raise(Load(args.science).error) /\ UNCHANGED sci
       ELSE sci' = Load(args.science).data /\ pc' = "load_header" /\ UNCHANGED err
    /\ UNCHANGED <<files, calls, args, bias, flat, dark, sciHeader, mask, reduced_science,
                   sci_hdu, mask_hdu, hdul, result, files0, crInput>>

\* line 46: sciHeader = fits.getheader(science_filename)
LoadHeader ==
    /\ At("load_header")
    /\ IF OpenError(files[args.science]) # ""
       THEN Raise(OpenError(files[args.science])) /\ UNCHANGED sciHeader
       ELSE sciHeader' = getheader(files[args.science]) /\ pc' = "sub_bias" /\ UNCHANGED err
    /\ UNCHANGED <<files, calls, args, bias, flat, dark, sci, mask, reduced_science,
                   sci_hdu, mask_hdu, hdul, result, files0, crInput>>

\* line 49: sci -= bias
SubBias ==
    /\ At("sub_bias")
    /\ IF ~Broadcastable(bias.shape, sci.shape)
       THEN Raise("ValueError") /\ UNCHANGED sci
       ELSE sci' = ISub(sci, bias) /\ pc' = "scale_dark" /\ UNCHANGED err
    /\ UNCHANGED <<files, calls, args, bias, flat, dark, sciHeader, mask, reduced_science,
                   sci_hdu, mask_hdu, hdul, result, files0, crInput>>

\* mutant of Exptime: a missing key reads as one second, header.get('EXPTIME', 1)
ExptimeOrDefault(h) ==
    [found |-> TRUE,
     value |-> IF HasKey(h, "EXPTIME") THEN HeaderGet(h, "EXPTIME").num ELSE 1]

\* sciHeader['EXPTIME']: whether the key is there, and its value
Exptime(h) ==
    [found |-> HasKey(h, "EXPTIME"),
     value |-> IF HasKey(h, "EXPTIME") THEN HeaderGet(h, "EXPTIME").num ELSE 0]

\* mutant of ScaleFactor: the dark file's own EXPTIME
ScaleFactorOfDark == Exptime(getheader(files[args.dark]))

\* the factor line 51 scales the dark by
ScaleFactor == Exptime(sciHeader)

\* line 51: dark *= sciHeader['EXPTIME']
ScaleDark ==
    /\ At("scale_dark")
    /\ IF ~ScaleFactor.found
       THEN Raise("KeyError") /\ UNCHANGED dark
       ELSE dark' = IMulScalar(dark, ScaleFactor.value) /\ pc' = "sub_dark" /\ UNCHANGED err
    /\ UNCHANGED <<files, calls, args, bias, flat, sci, sciHeader, mask, reduced_science,
                   sci_hdu, mask_hdu, hdul, result, files0, crInput>>

\* line 52: sci -= dark
SubDark ==
    /\ At("sub_dark")
    /\ IF ~Broadcastable(dark.shape, sci.shape)
       THEN Raise("ValueError") /\ UNCHANGED sci
       ELSE sci' = ISub(sci, dark) /\ pc' = "div_flat" /\ UNCHANGED err
    /\ UNCHANGED <<files, calls, args, bias, flat, dark, sciHeader, mask, reduced_science,
                   sci_hdu, mask_hdu, hdul, result, files0, crInput>>

\* line 54: sci /= flat
DivFlat ==
    /\ At("div_flat")
    /\ IF ~Broadcastable(flat.shape, sci.shape)
       THEN Raise("ValueError") /\ UNCHANGED sci
       ELSE sci' = IDiv(sci, flat) /\ pc' = "detect" /\ UNCHANGED err
    /\ UNCHANGED <<files, calls, args, bias, flat, dark, sciHeader, mask, reduced_science,
                   sci_hdu, mask_hdu, hdul, result, files0, crInput>>

\* line 57: mask, reduced_science = detect_cosmics(sci)
DetectCosmics ==
    /\ At("detect")
    /\ crInput' = Append(crInput, sci)
    /\ \E o \in detect_cosmics(sci) :
         IF ~o.ok
         THEN Raise("DetectionError") /\ UNCHANGED <<mask, reduced_science>>
         ELSE /\ mask' = o.mask
              /\ reduced_science' = o.clean
              /\ pc' = "primary_hdu"
              /\ UNCHANGED err
    /\ UNCHANGED <<files, calls, args, bias, flat, dark, sci, sciHeader,
                   sci_hdu, mask_hdu, hdul, result, files0>>

\* line 59: sci_hdu = fits.PrimaryHDU(data=reduced_science, header=sciHeader)
MakePrimary ==
    /\ At("primary_hdu")
    /\ sci_hdu' = PrimaryHDU(reduced_science, sciHeader)
    /\ pc' = "set_comment"
    /\ UNCHANGED <<files, calls, args, bias, flat, dark, sci, sciHeader, mask, reduced_science,
                   mask_hdu, hdul, result, err, files0, crInput>>

\* sci_hdu.header[k] = (v, c)
SetCard(k, v, c) == sci_hdu' = [sci_hdu EXCEPT !.header = HeaderSet(@, k, v, c)]

\* line 60: sci_hdu.header['COMMENT'] = 'Reduced science image'
SetComment ==
    /\ At("set_comment")
    /\ SetCard("COMMENT", Str("Reduced science image"), "")
    /\ pc' = "set_biasfile"
    /\ UNCHANGED <<files, calls, args, bias, flat, dark, sci, sciHeader, mask, reduced_science,
                   mask_hdu, hdul, result, err, files0, crInput>>

\* mutant of Provenance: dark and flat taken in the order of the signature
ProvenanceByPosition(key) ==
    CASE key = "BIASFILE" -> args.bias
      [] key = "DARKFILE" -> args.flat
      [] key = "FLATFILE" -> args.dark

\* lines 61-63: the file recorded under each provenance keyword
Provenance(key) ==
    CASE key = "BIASFILE" -> args.bias
      [] key = "DARKFILE" -> args.dark
      [] key = "FLATFILE" -> args.flat

\* line 61: sci_hdu.header['BIASFILE'] = (median_bias_filename, ...)
SetBiasfile ==
    /\ At("set_biasfile")
    /\ SetCard("BIASFILE", Str(Provenance("BIASFILE")), "Bias image used to subtract bias level")
    /\ pc' = "set_darkfile"
    /\ UNCHANGED <<files, calls, args, bias, flat, dark, sci, sciHeader, mask, reduced_science,
                   mask_hdu, hdul, result, err, files0, crInput>>

\* line 62: sci_hdu.header['DARKFILE'] = (median_dark_filename, ...)
SetDarkfile ==
    /\ At("set_darkfile")
    /\ SetCard("DARKFILE", Str(Provenance("DARKFILE")), "Dark image used to subtract dark current")
    /\ pc' = "set_flatfile"
    /\ UNCHANGED <<files, calls, args, bias, flat, dark, sci, sciHeader, mask, reduced_science,
                   mask_hdu, hdul, result, err, files0, crInput>>

\* line 63: sci_hdu.header['FLATFILE'] = (median_flat_filename, ...)
SetFlatfile ==
    /\ At("set_flatfile")
    /\ SetCard("FLATFILE", Str(Provenance("FLATFILE")), "Flat image used for FPN correction")
    /\ pc' = "mask_hdu"
    /\ UNCHANGED <<files, calls, args, bias, flat, dark, sci, sciHeader, mask, reduced_science,
                   mask_hdu, hdul, result, err, files0, crInput>>

\* line 64: mask_hdu = fits.ImageHDU(data=mask.astype('uint8'), name='COSMICRAY_MASK')
MakeMask ==
    /\ At("mask_hdu")
    /\ mask_hdu' = ImageHDU(astype_uint8(mask), "COSMICRAY_MASK")
    /\ pc' = "hdulist"
    /\ UNCHANGED <<files, calls, args, bias, flat, dark, sci, sciHeader, mask, reduced_science,
                   sci_hdu, hdul, result, err, files0, crInput>>

\* line 65: hdul = fits.HDUList([sci_hdu, mask_hdu])
MakeHDUList ==
    /\ At("hdulist")
    /\ hdul' = <<sci_hdu, mask_hdu>>
    /\ pc' = "writeto"
    /\ UNCHANGED <<files, calls, args, bias, flat, dark, sci, sciHeader, mask, reduced_science,
                   sci_hdu, mask_hdu, result, err, files0, crInput>>

\* mutant of WriteTarget: the result is written over the science file
WriteTargetScience == args.science

\* the path line 66 writes
WriteTarget == args.out

\* mutant of Written: the planes are appended to a file already there
WrittenAppend(old, planes) ==
    IF old.kind = "fits" THEN FitsFile(old.hdus \o planes) ELSE FitsFile(planes)

\* the file a completed writeto(..., overwrite=True) leaves where old was:
\* the planes given and nothing of old (float32 and uint8 planes and the
\* header cards are stored as they are)
Written(old, planes) == FitsFile(planes)

\* line 66: hdul.writeto(reduced_science_filename, overwrite=True).  The
\* write completes; or it is refused before anything is touched (no
\* permission, no such directory); or it fails after the file that was there
\* has been removed and before the new one is complete (device full).
WriteTo ==
    /\ At("writeto")
    /\ \E outcome \in {"written", "refused", "torn"} :
         IF outcome = "written"
         THEN /\ files' = [files EXCEPT ![WriteTarget] = Written(@, hdul)]
              /\ pc' = "return"
              /\ UNCHANGED err
         ELSE /\ files' = IF outcome = "torn" THEN [files EXCEPT ![WriteTarget] = Corrupt]
                                              ELSE files
              /\ Raise("OSError")
    /\ UNCHANGED <<calls, args, locals, result, files0, crInput>>

\* mutant of ReturnValue: the corrected image as it was before masking
ReturnCorrected == sci

\* the value line 68 returns
ReturnValue == reduced_science

\* line 68: return reduced_science
Return ==
    /\ At("return")
    /\ result' = ReturnValue
    /\ pc' = "done"
    /\ UNCHANGED <<files, calls, args, locals, err, files0, crInput>>

Next ==
    \/ Call
    \/ LoadBias \/ LoadFlat \/ LoadDark \/ LoadSci \/ LoadHeader
    \/ SubBias \/ ScaleDark \/ SubDark \/ DivFlat
    \/ DetectCosmics
    \/ MakePrimary \/ SetComment \/ SetBiasfile \/ SetDarkfile \/ SetFlatfile
    \/ MakeMask \/ MakeHDUList \/ WriteTo
    \/ Return

Spec == Init /\ [][Next]_vars

-----------------------------------------------------------------------------
(* properties *)

InputRoles == {"science", "bias", "flat", "dark"}

\* the file an argument named when the call began
Given(r) == files0[args[r]]

\* its primary plane as float32, element ij
Pixel(r, ij) ==
    LET a == Given(r).hdus[1].data
    IN  IF a.dtype = "float32" THEN a.pix[ij] ELSE <<a.pix[ij][1], 1>>

GridShape(r) == Given(r).hdus[1].data.shape

AllReadable == \A r \in InputRoles : Given(r).kind = "fits"

SameShapes == AllReadable /\ \A r \in InputRoles : GridShape(r) = GridShape("science")

\* EXPTIME of the science file
SciExptime == HeaderGet(Given("science").hdus[1].header, "EXPTIME").num

\* the detector has been called in this call
Detected == Len(crInput) > 0

\* C1: with science, bias, dark and flat of one grid shape and t the science
\* header's EXPTIME, the image handed to the cosmic-ray detector is
\* ((S - B) - D*t) / F at every pixel.
C1_CorrectedImage ==
    (Detected /\ SameShapes) =>
        /\ crInput[1].shape = GridShape("science")
        /\ \A ij \in Idx(GridShape("science")) :
             crInput[1].pix[ij] =
                 Div(Sub(Sub(Pixel("science", ij), Pixel("bias", ij)),
                         Mul(Pixel("dark", ij), <<SciExptime, 1>>)),
                     Pixel("flat", ij))

\* a same-shape call has handed the detector an image with a pixel that is
\* not an integer, after a dark of at least one second was subtracted
C1_Witness ==
    /\ pc = "primary_hdu"
    /\ SameShapes
    /\ SciExptime > 0
    /\ \E ij \in Idx(crInput[1].shape) : crInput[1].pix[ij][2] > 1

\* C2: a call whose bias, dark or flat has another grid shape than the
\* science frame raises: it never gets past the correction.
C2_ShapeMismatchRaises ==
    (pc \notin {"idle", "raised"} /\ AllReadable /\ ~SameShapes) =>
        (~Detected /\ pc \in {"load_bias", "load_flat", "load_dark", "load_sci", "load_header",
                              "sub_bias", "scale_dark", "sub_dark", "div_flat"})

\* the planes of a complete output file
TwoPlanes(f) == f.kind = "fits" /\ Len(f.hdus) = 2

\* C3: a call ends either returning the cleaned image with a complete
\* two-plane file at the output path, or raising with the file system as it
\* was before the call; nothing is written before the write of line 66.
C3_AllOrNothing ==
    /\ pc = "done" => (result = reduced_science /\ TwoPlanes(files[args.out]))
    /\ pc = "raised" => (result = None /\ files = files0)
    /\ "writeto" \notin {trace[i] : i \in 1 .. Len(trace)} => files = files0

\* C4 as claimed: whatever the arguments, the files given as science, bias,
\* dark and flat hold after the call what they held before it.
C4_InputsUntouched ==
    pc # "idle" => \A r \in InputRoles : files[args[r]] = Given(r)

\* C4 as amended: a call changes no file but the one at its output path, so
\* the inputs that are not also the output path are as they were.
C4_OnlyOutputChanges ==
    pc # "idle" => \A p \in Paths : p # args.out => files[p] = files0[p]

\* a call has ended with a new file at an output path that is none of its
\* inputs
C4_Witness ==
    /\ pc = "done"
    /\ \A r \in InputRoles : args[r] # args.out
    /\ files[args.out] # files0[args.out]

\* the header of the science file, and the primary header written
SciHeader0 == Given("science").hdus[1].header
OutHeader == files[args.out].hdus[1].header

Cards(h) == {h[i] : i \in 1 .. Len(h)}

CountKey(h, k) == Cardinality({i \in 1 .. Len(h) : h[i].key = k})

RemoveAt(h, i) == SubSeq(h, 1, i - 1) \o SubSeq(h, i + 1, Len(h))

ProvenanceKeys == {"BIASFILE", "DARKFILE", "FLATFILE"}

ReducedComment == Card("COMMENT", Str("Reduced science image"), "")

\* the provenance cards of this call
BiasCard == Card("BIASFILE", Str(args.bias), "Bias image used to subtract bias level")
DarkCard == Card("DARKFILE", Str(args.dark), "Dark image used to subtract dark current")
FlatCard == Card("FLATFILE", Str(args.flat), "Flat image used for FPN correction")

HasProvenance(h) ==
    /\ ReducedComment \in Cards(h)
    /\ \A k \in ProvenanceKeys : CountKey(h, k) = 1
    /\ {BiasCard, DarkCard, FlatCard} \subseteq Cards(h)

Carried(h) == SelectSeq(h, LAMBDA c : c.key \notin ProvenanceKeys \cup {"BITPIX"})

C6_RoundTrip ==
    pc = "done" =>
        LET f == files[args.out]
        IN  /\ TwoPlanes(f)
            /\ f.hdus[1].name = "PRIMARY"
            /\ f.hdus[1].data = result
            /\ f.hdus[2].name = "COSMICRAY_MASK"
            /\ f.hdus[2].data.dtype = "uint8"
            /\ f.hdus[2].data.shape = f.hdus[1].data.shape
            /\ \A ij \in Idx(f.hdus[1].data.shape) :
                 f.hdus[2].data.pix[ij] = IF mask.pix[ij] THEN <<1>> ELSE <<0>>

\* a file has been written whose mask flags a pixel and clears another
C6_Witness ==
    /\ pc = "done"
    /\ \E ij \in Idx(mask.shape) : mask.pix[ij]
    /\ \E ij \in Idx(mask.shape) : ~mask.pix[ij]

\* C7: after a call has returned, the file at its output path is the two
\* planes that call built, whatever was there before: its header holds only
\* cards of the call's science header and the call's own cards.
C7_Overwrite ==
    pc = "done" =>
        /\ files[args.out] = FitsFile(<<sci_hdu, mask_hdu>>)
        /\ Len(files[args.out].hdus) = 2
        /\ sci_hdu.data = reduced_science
        /\ Cards(OutHeader) \subseteq
               Cards(sciHeader) \cup
               {BitpixCard("float32"), ReducedComment, BiasCard, DarkCard, FlatCard}

\* a second call has returned after replacing, at the same path, the other
\* output an earlier call left there
C7_Witness ==
    /\ pc = "done"
    /\ calls = 2
    /\ TwoPlanes(files0[args.out])
    /\ files0[args.out].hdus[2].name = "COSMICRAY_MASK"
    /\ files[args.out] # files0[args.out]

\* the statements of the function in program order
Order ==
    <<"load_bias", "load_flat", "load_dark", "load_sci", "load_header",
      "sub_bias", "scale_dark", "sub_dark", "div_flat", "detect",
      "primary_hdu", "set_comment", "set_biasfile", "set_darkfile", "set_flatfile",
      "mask_hdu", "hdulist", "writeto", "return">>

Ran(s) == \E i \in 1 .. Len(trace) : trace[i] = s

NoExptime == Given("science").kind = "fits" /\ ~HasKey(SciHeader0, "EXPTIME")

\* C8: a call on a science file whose header has no EXPTIME never scales the
\* dark, never calls the detector, writes nothing and returns nothing; the
\* lookup of line 51 raises KeyError, which leaves the call.
C8_MissingExptime ==
    (pc # "idle" /\ NoExptime) =>
        /\ pc # "done" /\ result = None
        /\ ~Ran("sub_dark") /\ ~Ran("detect") /\ ~Ran("writeto")
        /\ ~Detected
        /\ files = files0
        /\ Ran("scale_dark") => (pc = "raised" /\ err = "KeyError")

\* the lookup has raised
C8_Witness == NoExptime /\ pc = "raised" /\ err = "KeyError" /\ Ran("scale_dark")

IsFinite(a) == a[2] # 0

\* C9 as claimed: once line 51 has run, dark is the dark file's plane times
\* the science file's EXPTIME: twice the dark for twice the exposure and zero
\* for none, and then the detector gets (S - B) / F.
C9_ZeroExposureSubtractsNothing ==
    /\ (Ran("scale_dark") /\ pc # "raised") =>
           \A ij \in Idx(GridShape("dark")) :
               /\ dark.pix[ij] = Mul(Pixel("dark", ij), <<SciExptime, 1>>)
               /\ Add(dark.pix[ij], dark.pix[ij]) = Mul(Pixel("dark", ij), <<2 * SciExptime, 1>>)
               /\ SciExptime = 0 => dark.pix[ij] = <<0, 1>>
    /\ (Detected /\ SameShapes /\ SciExptime = 0) =>
           \A ij \in Idx(GridShape("science")) :
               crInput[1].pix[ij] =
                   Div(Sub(Pixel("science", ij), Pixel("bias", ij)), Pixel("flat", ij))

\* C9 as amended: once line 51 has run, dark is the dark file's plane times
\* the science file's EXPTIME, never the dark file's own: twice the dark for
\* twice the exposure; for an exposure of zero it is zero at every pixel
\* where the dark master is finite, and there the detector gets (S - B) / F.
\* An infinite or NaN dark pixel times zero is NaN.
C9_DarkScaling ==
    /\ (Ran("scale_dark") /\ pc # "raised") =>
           \A ij \in Idx(GridShape("dark")) :
               /\ dark.pix[ij] = Mul(Pixel("dark", ij), <<SciExptime, 1>>)
               /\ Add(dark.pix[ij], dark.pix[ij]) = Mul(Pixel("dark", ij), <<2 * SciExptime, 1>>)
               /\ SciExptime = 0 =>
                      dark.pix[ij] = IF IsFinite(Pixel("dark", ij)) THEN <<0, 1>> ELSE NaN
    /\ (Detected /\ SameShapes /\ SciExptime = 0) =>
           \A ij \in Idx(GridShape("science")) :
               crInput[1].pix[ij] =
                   IF IsFinite(Pixel("dark", ij))
                   THEN Div(Sub(Pixel("science", ij), Pixel("bias", ij)), Pixel("flat", ij))
                   ELSE NaN

\* an exposure of zero has been reduced with a dark that has a pixel that is
\* not finite and a finite pixel that is not zero
C9_Witness ==
    /\ Detected
    /\ SameShapes
    /\ SciExptime = 0
    /\ \E ij \in Idx(GridShape("dark")) : ~IsFinite(Pixel("dark", ij))
    /\ \E ij \in Idx(GridShape("dark")) : IsFinite(Pixel("dark", ij)) /\ ~IsZero(Pixel("dark", ij))

\* C10: the statements run in program order, none twice; the detector is
\* called at most once, and once in a call that got past it, on the image as
\* it is after the flat division; the image returned and the primary plane
\* written are the detector's cleaned image.
C10_Pipeline ==
    /\ trace = SubSeq(Order, 1, Len(trace))
    /\ Len(crInput) = IF Ran("detect") THEN 1 ELSE 0
    /\ Detected => (Ran("div_flat") /\ crInput[1] = sci)
    /\ pc = "done" =>
         /\ Len(trace) = Len(Order)
         /\ \E o \in detect_cosmics(crInput[1]) :
              o.ok /\ o.clean = reduced_science /\ o.mask = mask
         /\ result = reduced_science
         /\ files[args.out].hdus[1].data = reduced_science

\* a call has returned an image the detector changed
C10_Witness ==
    /\ pc = "done"
    /\ reduced_science # sci
    /\ result # sci

====
